---- MODULE Spec2Model ----
(***************************************************************************)
(* Voting and karma of the forum backend.                                  *)
(*                                                                         *)
(* The two vote handlers (routes/posts  POST /:id/vote  and                *)
(* routes/comments  POST /:id/vote) are modelled step by step: every       *)
(* `await` of a handler is a point where another request may run, so one   *)
(* handler is the chain                                                    *)
(*   findById(target) -> target.save() -> User.findById(author)            *)
(*     -> aggregate(s) -> user.save() -> response.                         *)
(* The code between two awaits runs without interruption (single-threaded  *)
(* event loop) and is part of the action that ends at the next await.      *)
(*                                                                         *)
(* A document read by findById is a private copy.  save() of a loaded      *)
(* document sends one update holding only the paths the handler changed:   *)
(* a changed counter as "set to the new value", a pushed voter as an       *)
(* append, a spliced voters array as a whole-array set and an edited voter *)
(* entry as a positional set.  The ODM's version key (__v) guards the two  *)
(* array updates that depend on positions.                                 *)
(*                                                                         *)
(* The comment handler repeats the post handler line by line on a comment  *)
(* (comment.voters, comment.upvotes, comment.downvotes); the two differ in *)
(* the karma they store: the post handler sums the author's posts, the     *)
(* comment handler the author's comments and posts.  A target of either    *)
(* kind is therefore handled by the same actions, which branch on the kind *)
(* where the handlers differ.                                              *)
(*                                                                         *)
(* The comment threads are modelled the same way: creation, update and     *)
(* deletion of comments (routes/comments), deletion of a post with its     *)
(* comments (routes/posts) and the listing of a post's comments, which     *)
(* runs one query for the roots and one query per comment for its replies. *)
(* Votes and threads work on different fields and are explored by          *)
(* separate specifications.                                                *)
(***************************************************************************)
EXTENDS Integers, Sequences, FiniteSets, TLC

\* ------------------------------------------------------------------ bounds
\* Total number of vote requests issued in one behaviour.
MaxVotes == 3

\* Number of vote requests when all of them are cast on one post.
MaxRepeat == 4

\* Number of comments created in one behaviour of creations and listings.
MaxComments == 4

\* Number of comments created in one behaviour of all comment and post
\* requests.
MaxThread == 3

\* Number of comment/post requests taken up in one behaviour.
MaxOps == 4

\* Number of requests taken up in one behaviour of creations and listings.
MaxListOps == 5

\* Votes and other requests taken up in one behaviour that mixes the two.
MaxFrameVotes == 2

MaxFrameOps == 2

\* Number of community requests taken up in one behaviour.
MaxCommunityOps == 4

\* ------------------------------------------------------------- the universe
Users    == {"a", "b"}
Posts    == {"p1", "p2"}
Comments == {"c1"}
Targets  == Posts \cup Comments
\* An id that references no stored post or comment.
MissingId == "none"
\* Request slots: how many handlers can be in flight together.
Reqs == {"r1", "r2"}
\* Values a client may send as `vote`; 2 stands for any invalid value.
VoteInputs == {-1, 0, 1, 2}

VARIABLES
  tgt,      \* stored posts and comments: upvotes, downvotes, voters, v (__v)
  author,   \* author of every stored post and comment
  karma,    \* stored karma of every user
  req,      \* per request slot: position in the handler and its locals
  casts,    \* per target, the accepted casts <<user, vote>> in arrival order
  issued    \* number of vote requests issued so far

\* The comment threads: the stored posts with their comment counts, the stored
\* comments, and the handlers that work on them.
VARIABLES
  postDocs, \* per post: stored (not deleted) and its commentCount
  comments, \* stored comments: id, post, parentId (0: none), createdAt, author
  now,      \* the clock that stamps createdAt
  nextId,   \* the next fresh comment id
  ops,      \* per slot: the running comment/post handler and its locals
  served    \* number of comment/post requests taken up so far

voteVars == <<tgt, author, karma, req, casts, issued>>

threadVars == <<postDocs, comments, now, nextId, ops, served>>

\* The community and the handlers that work on it.
VARIABLES
  community, \* the stored community of one name (or none yet)
  cops,      \* per slot: the running community handler and its locals
  cserved    \* number of community requests taken up so far

communityVars == <<community, cops, cserved>>

vars == <<voteVars, threadVars, communityVars>>

\* A post or comment as created: counters at their defaults, no voters.
FreshDoc == [upvotes |-> 0, downvotes |-> 0, voters |-> <<>>, v |-> 0]

\* A request slot with no handler running.
IdleReq == [pc |-> "idle", user |-> "a", target |-> MissingId, vote |-> 0,
            doc |-> FreshDoc, usr |-> 0, sum |-> 0, status |-> 0]

\* ------------------------------------------------- the in-memory vote logic
\* A lookup that never finds the user's entry.
existingVoteIndexNone(voters, userId) == 0

\* voters.findIndex(v => v.user == userId): the first matching position,
\* 0 when there is none (the code's -1; sequences are 1-based here).
existingVoteIndex(voters, userId) ==
  IF \E i \in 1..Len(voters) : voters[i].user = userId
  THEN CHOOSE i \in 1..Len(voters) :
         /\ voters[i].user = userId
         /\ \A j \in 1..(i - 1) : voters[j].user # userId
  ELSE 0

\* A splice that removes nothing.
SpliceKeep(voters, index) == voters

\* voters.splice(index, 1)
Splice(voters, index) ==
  [k \in 1..(Len(voters) - 1) |-> IF k < index THEN voters[k] ELSE voters[k + 1]]

\* Handler changes that forget to take the user's existing vote out of the
\* counters before the new vote is added.
CastVoteNoUndo(doc, userId, vote) ==
  LET index == existingVoteIndex(doc.voters, userId)
      up    == IF vote = 1 THEN doc.upvotes + 1 ELSE doc.upvotes
      down  == IF vote = -1 THEN doc.downvotes + 1 ELSE doc.downvotes
  IN IF index # 0
     THEN IF vote = 0
          THEN [doc EXCEPT !.voters = Splice(doc.voters, index)]
          ELSE [doc EXCEPT !.upvotes = up, !.downvotes = down,
                           !.voters[index].vote = vote]
     ELSE IF vote # 0
          THEN [doc EXCEPT !.upvotes = up, !.downvotes = down,
                           !.voters = Append(doc.voters,
                                             [user |-> userId, vote |-> vote])]
          ELSE doc

\* Handler changes that keep a retracted vote as an entry with vote 0 instead
\* of removing the entry.
CastVoteKeepZero(doc, userId, vote) ==
  LET index == existingVoteIndex(doc.voters, userId) IN
  IF index # 0
  THEN LET existingVote == doc.voters[index].vote
           up   == IF existingVote = 1 THEN doc.upvotes - 1 ELSE doc.upvotes
           down == IF existingVote = -1 THEN doc.downvotes - 1
                   ELSE doc.downvotes
       IN [doc EXCEPT !.upvotes = IF vote = 1 THEN up + 1 ELSE up,
                      !.downvotes = IF vote = -1 THEN down + 1 ELSE down,
                      !.voters[index].vote = vote]
  ELSE IF vote # 0
       THEN [doc EXCEPT !.upvotes = IF vote = 1 THEN doc.upvotes + 1
                                    ELSE doc.upvotes,
                        !.downvotes = IF vote = -1 THEN doc.downvotes + 1
                                      ELSE doc.downvotes,
                        !.voters = Append(doc.voters,
                                          [user |-> userId, vote |-> vote])]
       ELSE doc

\* The handler's changes to the loaded document before it is saved.
CastVote(doc, userId, vote) ==
  LET index == existingVoteIndex(doc.voters, userId) IN
  IF index # 0
  THEN LET existingVote == doc.voters[index].vote
           up   == IF existingVote = 1 THEN doc.upvotes - 1 ELSE doc.upvotes
           down == IF existingVote = 1 THEN doc.downvotes
                   ELSE IF existingVote = -1 THEN doc.downvotes - 1
                   ELSE doc.downvotes
       IN IF vote = 0
          THEN [doc EXCEPT !.upvotes = up, !.downvotes = down,
                           !.voters = Splice(doc.voters, index)]
          ELSE [doc EXCEPT !.upvotes = IF vote = 1 THEN up + 1 ELSE up,
                           !.downvotes = IF vote = 1 THEN down
                                         ELSE IF vote = -1 THEN down + 1
                                         ELSE down,
                           !.voters[index].vote = vote]
  ELSE IF vote # 0
       THEN [doc EXCEPT !.upvotes = IF vote = 1 THEN doc.upvotes + 1
                                    ELSE doc.upvotes,
                        !.downvotes = IF vote = 1 THEN doc.downvotes
                                      ELSE IF vote = -1 THEN doc.downvotes + 1
                                      ELSE doc.downvotes,
                        !.voters = Append(doc.voters,
                                          [user |-> userId, vote |-> vote])]
       ELSE doc

\* A change summary that misses an edited entry, so that a flipped vote is
\* not sent by save().
VotersChangeNoSet(doc, userId, vote) ==
  LET index == existingVoteIndex(doc.voters, userId) IN
  IF index # 0
  THEN IF vote = 0 THEN "splice" ELSE "none"
  ELSE IF vote # 0 THEN "push" ELSE "none"

\* How the handler changed the voters array, which decides the update save()
\* sends for it: "push", "splice", "set" (one entry's vote) or "none".
VotersChange(doc, userId, vote) ==
  LET index == existingVoteIndex(doc.voters, userId) IN
  IF index # 0
  THEN IF vote = 0 THEN "splice"
       ELSE IF doc.voters[index].vote # vote THEN "set" ELSE "none"
  ELSE IF vote # 0 THEN "push" ELSE "none"

\* The handler assigned the counter but left it at its loaded value (the
\* existing vote was removed and the same vote added again).
UpvotesRestored(doc, userId, vote) ==
  LET index == existingVoteIndex(doc.voters, userId) IN
  index # 0 /\ doc.voters[index].vote = 1 /\ vote = 1

DownvotesRestored(doc, userId, vote) ==
  LET index == existingVoteIndex(doc.voters, userId) IN
  index # 0 /\ doc.voters[index].vote = -1 /\ vote = -1

\* ------------------------------------------------------------------ save()
\* The version check of save(): an update that sets one array entry by position
\* or replaces the array requires the stored __v to be the loaded one.
VersionMatches(stored, doc, userId, vote) ==
  VotersChange(doc, userId, vote) \in {"splice", "set"} => stored.v = doc.v

\* A save that sends the counters but not the change of the voters array.
SaveDocCountersOnly(stored, doc, userId, vote, resend) ==
  LET new == CastVote(doc, userId, vote) IN
  [stored EXCEPT !.upvotes = new.upvotes, !.downvotes = new.downvotes]

\* The stored document after save() of the loaded document `doc` changed by
\* the handler.  `resend` says whether a counter assigned back to its loaded
\* value is sent as well.
SaveDoc(stored, doc, userId, vote, resend) ==
  LET new    == CastVote(doc, userId, vote)
      change == VotersChange(doc, userId, vote)
      index  == existingVoteIndex(doc.voters, userId)
      setUp   == new.upvotes # doc.upvotes
                   \/ (resend /\ UpvotesRestored(doc, userId, vote))
      setDown == new.downvotes # doc.downvotes
                   \/ (resend /\ DownvotesRestored(doc, userId, vote))
  IN [upvotes   |-> IF setUp THEN new.upvotes ELSE stored.upvotes,
      downvotes |-> IF setDown THEN new.downvotes ELSE stored.downvotes,
      voters    |-> CASE change = "push" ->
                           Append(stored.voters, [user |-> userId, vote |-> vote])
                      [] change = "splice" -> new.voters
                      [] change = "set" ->
                           [stored.voters EXCEPT ![index].vote = vote]
                      [] OTHER -> stored.voters,
      v         |-> IF change \in {"push", "splice"} THEN stored.v + 1
                    ELSE stored.v]

\* ------------------------------------------------------------- aggregation
RECURSIVE SumNet(_, _)
\* $group { $sum: { $subtract: ['$upvotes', '$downvotes'] } } over a set of
\* stored documents.
SumNet(store, ids) ==
  IF ids = {} THEN 0
  ELSE LET t == CHOOSE x \in ids : TRUE
       IN (store[t].upvotes - store[t].downvotes) + SumNet(store, ids \ {t})

\* Post.aggregate([{ $match: { author } }, { $group ... }])
PostKarma(store, auth, userId) ==
  SumNet(store, {p \in Posts : auth[p] = userId})

\* Comment.aggregate([{ $match: { author } }, { $group ... }])
CommentKarma(store, auth, userId) ==
  SumNet(store, {c \in Comments : auth[c] = userId})

\* ----------------------------------------------------------- comment threads
\* Request slots of the comment and post handlers.
Slots == {"s1", "s2"}

\* parentId of a top-level comment (the code's null).
NoParent == 0

\* No replies attached to any comment of a listing.
NoReplies == [i \in 1..MaxComments |-> <<>>]

\* A slot with no handler running.
IdleOp == [pc |-> "idle", user |-> "a", post |-> MissingId,
           parent |-> NoParent, id |-> 0, count |-> 0, roots |-> <<>>,
           replies |-> NoReplies, work |-> <<>>, status |-> 0,
           doc |-> FreshDoc]

\* The posts are stored without comments.
InitThreads ==
  /\ postDocs = [p \in Posts |-> [stored |-> TRUE, commentCount |-> 0]]
  /\ comments = {}
  /\ now = 0
  /\ nextId = 1
  /\ ops = [s \in Slots |-> IdleOp]
  /\ served = 0

\* ---------------------------------------------------------------- community
\* Request slots of the community handlers.
CSlots == {"k1", "k2"}

\* No community of the name is stored.
NoCommunity == [exists |-> FALSE, creator |-> "a", moderators |-> <<>>,
                members |-> <<>>, memberCount |-> 0, v |-> 0]

\* A slot with no handler running.
IdleCop == [pc |-> "idle", user |-> "a", other |-> "a", doc |-> NoCommunity,
            status |-> 0]

InitCommunity ==
  /\ community = NoCommunity
  /\ cops = [k \in CSlots |-> IdleCop]
  /\ cserved = 0

\* ------------------------------------------------------------------- state
TypeOK ==
  /\ DOMAIN tgt = Targets
  /\ author \in [Targets -> Users]
  /\ karma \in [Users -> Int]
  /\ DOMAIN req = Reqs
  /\ issued \in 0..MaxRepeat

\* The posts and comments exist and nobody has voted yet.  Post p1 is written
\* by user a, the other post and the comment by any of the users.
Init ==
  /\ tgt = [t \in Targets |-> FreshDoc]
  /\ author \in {f \in [Targets -> Users] : f["p1"] = "a"}
  /\ karma = [u \in Users |-> 0]
  /\ req = [r \in Reqs |-> IdleReq]
  /\ casts = [t \in Targets |-> <<>>]
  /\ issued = 0
  /\ InitThreads
  /\ InitCommunity

\* --------------------------------------------------- the vote handler steps
\* Slots carry no identity: an arriving request takes the first free one.
Free(r) ==
  /\ req[r].pc = "idle"
  /\ r = "r1" \/ req["r1"].pc # "idle"

Respond(r, status) ==
  req' = [req EXCEPT ![r] = [IdleReq EXCEPT !.status = status]]

\* `vote` is validated first: anything but 1, 0, -1 is answered with 400.
RejectInvalid(r) ==
  /\ Free(r)
  /\ issued < MaxVotes
  /\ \E vote \in VoteInputs :
       /\ vote \notin {1, 0, -1}
       /\ Respond(r, 400)
  /\ issued' = issued + 1
  /\ UNCHANGED <<tgt, author, karma, casts, threadVars, communityVars>>

\* findById finds nothing: 404.
RejectNotFound(r) ==
  /\ Free(r)
  /\ issued < MaxVotes
  /\ \E vote \in {1, 0, -1}, id \in Targets \cup {MissingId} :
       /\ id \notin DOMAIN tgt
       /\ Respond(r, 404)
  /\ issued' = issued + 1
  /\ UNCHANGED <<tgt, author, karma, casts, threadVars, communityVars>>

\* A handler without the validation of `vote`: any value sent is taken.
LoadVoteUnchecked(r, ids) ==
  /\ Free(r)
  /\ \E userId \in Users, vote \in VoteInputs, id \in ids :
       /\ req' = [req EXCEPT ![r] = [IdleReq EXCEPT !.pc = "loaded",
                                       !.user = userId, !.target = id,
                                       !.vote = vote, !.doc = tgt[id]]]
       /\ casts' = [casts EXCEPT ![id] = Append(@, <<userId, vote>>)]
  /\ issued' = issued + 1
  /\ UNCHANGED <<tgt, author, karma, threadVars, communityVars>>

\* findById loads the post or comment; the request is for one of `ids`.
LoadVote(r, ids) ==
  /\ Free(r)
  /\ \E userId \in Users, vote \in {1, 0, -1}, id \in ids :
       /\ req' = [req EXCEPT ![r] = [IdleReq EXCEPT !.pc = "loaded",
                                       !.user = userId, !.target = id,
                                       !.vote = vote, !.doc = tgt[id]]]
       /\ casts' = [casts EXCEPT ![id] = Append(@, <<userId, vote>>)]
  /\ issued' = issued + 1
  /\ UNCHANGED <<tgt, author, karma, threadVars, communityVars>>

\* A vote request for any stored post or comment.
LoadTarget(r) ==
  /\ issued < MaxVotes
  /\ LoadVote(r, Targets)

\* A save whose update is matched by author instead of by id: it lands on
\* every post and comment of the target's author.
SaveTargetByAuthor(r) ==
  /\ req[r].pc = "loaded"
  /\ LET q == req[r] IN
     \E resend \in BOOLEAN :
       IF VersionMatches(tgt[q.target], q.doc, q.user, q.vote)
       THEN /\ tgt' = [t \in Targets |->
                         IF author[t] = author[q.target]
                         THEN SaveDoc(tgt[t], q.doc, q.user, q.vote, resend)
                         ELSE tgt[t]]
            /\ req' = [req EXCEPT ![r].pc = "saved",
                                  ![r].doc = CastVote(q.doc, q.user, q.vote)]
       ELSE /\ Respond(r, 400)
            /\ UNCHANGED tgt
  /\ UNCHANGED <<author, karma, casts, issued, threadVars, communityVars>>

\* The counters and voters are changed in memory and the document is saved;
\* a failed version check raises VersionError, answered with 400.  After the
\* save the handler's copy (req[r].doc) holds the changed counters, which
\* are the ones the response returns.
SaveTarget(r) ==
  /\ req[r].pc = "loaded"
  /\ LET q == req[r] IN
     \E resend \in BOOLEAN :
       IF VersionMatches(tgt[q.target], q.doc, q.user, q.vote)
       THEN /\ tgt' = [tgt EXCEPT ![q.target] =
                         SaveDoc(@, q.doc, q.user, q.vote, resend)]
            /\ req' = [req EXCEPT ![r].pc = "saved",
                                  ![r].doc = CastVote(q.doc, q.user, q.vote)]
       ELSE /\ Respond(r, 400)
            /\ UNCHANGED tgt
  /\ UNCHANGED <<author, karma, casts, issued, threadVars, communityVars>>

\* User.findById(target.author)
FindAuthor(r) ==
  /\ req[r].pc = "saved"
  /\ req' = [req EXCEPT ![r].pc = IF req[r].target \in Posts THEN "posts"
                                  ELSE "comments",
                        ![r].usr = karma[author[req[r].target]]]
  /\ UNCHANGED <<tgt, author, karma, casts, issued, threadVars, communityVars>>

\* Comment vote only: Comment.aggregate over the author's comments.
AggregateComments(r) ==
  /\ req[r].pc = "comments"
  /\ req' = [req EXCEPT ![r].pc = "posts",
                        ![r].sum = CommentKarma(tgt, author,
                                                author[req[r].target])]
  /\ UNCHANGED <<tgt, author, karma, casts, issued, threadVars, communityVars>>

\* Post.aggregate over the author's posts.  The post handler assigns the
\* result to user.karma; the comment handler assigns postKarma + commentKarma.
AggregatePosts(r) ==
  /\ req[r].pc = "posts"
  /\ LET postKarma == PostKarma(tgt, author, author[req[r].target]) IN
     req' = [req EXCEPT ![r].pc = "user",
                        ![r].sum = IF req[r].target \in Posts THEN postKarma
                                   ELSE postKarma + req[r].sum]
  /\ UNCHANGED <<tgt, author, karma, casts, issued, threadVars, communityVars>>

\* user.save() writes karma when the handler changed it, then the response
\* with the handler's counters is sent.
SaveUser(r) ==
  /\ req[r].pc = "user"
  /\ karma' = IF req[r].sum # req[r].usr
              THEN [karma EXCEPT ![author[req[r].target]] = req[r].sum]
              ELSE karma
  /\ Respond(r, 200)
  /\ UNCHANGED <<tgt, author, casts, issued, threadVars, communityVars>>

Step(r) ==
  \/ SaveTarget(r)
  \/ FindAuthor(r)
  \/ AggregateComments(r)
  \/ AggregatePosts(r)
  \/ SaveUser(r)

\* No handler is in flight.
Quiet == \A r \in Reqs : req[r].pc = "idle"

\* Requests interleave at every await.
Next ==
  \E r \in Reqs :
    RejectInvalid(r) \/ RejectNotFound(r) \/ LoadTarget(r) \/ Step(r)

Spec == Init /\ [][Next]_vars

\* Requests are executed one at a time: a request is taken up only when no
\* handler is in flight.
NextSerial ==
  \E r \in Reqs :
    \/ Quiet /\ (RejectInvalid(r) \/ RejectNotFound(r) \/ LoadTarget(r))
    \/ Step(r)

SpecSerial == Init /\ [][NextSerial]_vars

\* ------------------------------------------------------ storage failures
\* The first findById of a request raises: the catch answers 400.
FindFails(r) ==
  /\ Free(r)
  /\ issued < MaxVotes
  /\ Respond(r, 400)
  /\ issued' = issued + 1
  /\ UNCHANGED <<tgt, author, karma, casts, threadVars, communityVars>>

\* The call a running handler awaits next raises (target.save(),
\* User.findById, an aggregate or user.save()): nothing is written by that
\* call and the catch answers 400.
StorageFails(r) ==
  /\ req[r].pc \in {"loaded", "saved", "comments", "posts", "user"}
  /\ Respond(r, 400)
  /\ UNCHANGED <<tgt, author, karma, casts, issued, threadVars, communityVars>>

\* Requests run one at a time and any storage call may fail.
NextFaulty ==
  \E r \in Reqs :
    \/ Quiet /\ (RejectInvalid(r) \/ RejectNotFound(r) \/ LoadTarget(r)
                   \/ FindFails(r))
    \/ Step(r)
    \/ StorageFails(r)

SpecFaulty == Init /\ [][NextFaulty]_vars

\* Repeated voting on one post: interleaved requests, all for post p1.
LoadOnPost(r) ==
  /\ issued < MaxRepeat
  /\ LoadVote(r, {"p1"})

NextRepeat ==
  \E r \in Reqs :
    \/ LoadOnPost(r)
    \/ SaveTarget(r)
    \/ FindAuthor(r)
    \/ AggregatePosts(r)
    \/ SaveUser(r)

\* Who wrote the other post and the comment plays no part here: user a did.
InitRepeat == Init /\ author = [t \in Targets |-> "a"]

SpecRepeat == InitRepeat /\ [][NextRepeat]_vars

\* ------------------------------------------------- comment and post handlers
\* The result of find(filter).sort({createdAt: dir}): the matching comments
\* in an order that agrees with the sort key (1 ascending, -1 descending);
\* the order of comments with equal createdAt is left to the store.
FindSortedUnsorted(found, dir) ==
  {f \in [1..Cardinality(found) -> found] :
     \A i, j \in DOMAIN f : i # j => f[i] # f[j]}

FindSorted(found, dir) ==
  {f \in [1..Cardinality(found) -> found] :
     /\ \A i, j \in DOMAIN f : i # j => f[i] # f[j]
     /\ \A i, j \in DOMAIN f :
          i < j => dir * (f[j].createdAt - f[i].createdAt) >= 0}

\* Comment.findById(id): the stored comments with that id (none or one).
CommentById(id) == {c \in comments : c.id = id}

\* Post.findById(id) finds a post.
PostStored(id) == id \in Posts /\ postDocs[id].stored

\* A slot takes up a request when its handler has answered; the second slot
\* is used only while the first is busy.
FreeOp(s) ==
  /\ ops[s].pc \in {"idle", "listed"}
  /\ s = "s1" \/ ops["s1"].pc \notin {"idle", "listed"}

\* The response is sent and the handler ends.
Answer(s, status) ==
  ops' = [ops EXCEPT ![s] = [IdleOp EXCEPT !.status = status]]

\* Creating requests that have not yet stored their comment.
Creating == {s \in Slots : ops[s].pc \in {"parent", "insert"}}

\* POST /comments: Post.findById(postId), 404 when the post is not found.
\* The request comes from one of `users` for one of `postIds`; `limit`
\* bounds the number of comments created.
TakeCreate(s, users, postIds, limit) ==
  /\ FreeOp(s)
  /\ nextId + Cardinality(Creating) <= limit
  /\ \E userId \in users, postId \in postIds, parentId \in 0..(nextId - 1) :
       IF PostStored(postId)
       THEN ops' = [ops EXCEPT ![s] =
                      [IdleOp EXCEPT !.pc = IF parentId # NoParent
                                            THEN "parent" ELSE "insert",
                                     !.user = userId, !.post = postId,
                                     !.parent = parentId,
                                     !.count = postDocs[postId].commentCount]]
       ELSE Answer(s, 404)
  /\ served' = served + 1
  /\ UNCHANGED <<postDocs, comments, now, nextId, voteVars, communityVars>>

\* A creation by any user for any post id.
CreateComment(s) ==
  /\ served < MaxOps
  /\ TakeCreate(s, Users, Posts \cup {MissingId}, MaxThread)

\* A reply: Comment.findById(parentId), 404 when the parent is not found.
\* Nothing else about the parent is looked at.
CreateFindParent(s) ==
  /\ ops[s].pc = "parent"
  /\ IF CommentById(ops[s].parent) # {}
     THEN ops' = [ops EXCEPT ![s].pc = "insert"]
     ELSE Answer(s, 404)
  /\ UNCHANGED <<postDocs, comments, now, nextId, served, voteVars, communityVars>>

\* new Comment({content, author, post, parentId}) and comment.save(): the
\* comment is stored under a fresh id, stamped with the time of the save.
CreateInsert(s) ==
  /\ ops[s].pc = "insert"
  /\ \E dt \in {0, 1} :
       /\ now' = now + dt
       /\ comments' = comments \cup
            {[id |-> nextId, post |-> ops[s].post, parentId |-> ops[s].parent,
              createdAt |-> now + dt, author |-> ops[s].user]}
  /\ nextId' = nextId + 1
  /\ ops' = [ops EXCEPT ![s].pc = "count", ![s].id = nextId]
  /\ UNCHANGED <<postDocs, served, voteVars, communityVars>>

\* post.commentCount += 1 on the copy loaded at the start and post.save()
\* writes that value; then the comment is populated and returned with 201.
\* The save of a post deleted in between writes nothing: it is either
\* passed over or raised and answered with 400.
CreateSavePost(s) ==
  /\ ops[s].pc = "count"
  /\ IF PostStored(ops[s].post)
     THEN /\ postDocs' = [postDocs EXCEPT ![ops[s].post].commentCount =
                            ops[s].count + 1]
          /\ Answer(s, 201)
     ELSE /\ \E status \in {201, 400} : Answer(s, status)
          /\ UNCHANGED postDocs
  /\ UNCHANGED <<comments, now, nextId, served, voteVars, communityVars>>

\* PUT /comments/:id: findById, 404 when not found, 403 for another user.
\* The request comes from one of `users`.
TakeUpdate(s, users) ==
  /\ FreeOp(s)
  /\ \E userId \in users, id \in 1..(nextId - 1) :
       IF CommentById(id) = {} THEN Answer(s, 404)
       ELSE IF \E c \in CommentById(id) : c.author # userId
            THEN Answer(s, 403)
            ELSE ops' = [ops EXCEPT ![s] =
                           [IdleOp EXCEPT !.pc = "update",
                                          !.user = userId, !.id = id]]
  /\ served' = served + 1
  /\ UNCHANGED <<postDocs, comments, now, nextId, voteVars, communityVars>>

\* An update by any user.
UpdateComment(s) ==
  /\ served < MaxOps
  /\ TakeUpdate(s, Users)

\* An update that also takes a parentId from the request and stores it.
UpdateSaveReparent(s) ==
  /\ ops[s].pc = "update"
  /\ \E parentId \in 0..(nextId - 1) :
       comments' = {IF c.id = ops[s].id THEN [c EXCEPT !.parentId = parentId]
                    ELSE c : c \in comments}
  /\ Answer(s, 200)
  /\ UNCHANGED <<postDocs, now, nextId, served, voteVars, communityVars>>

\* comment.content = content and comment.save(): only the content changes.
\* The save of a comment deleted in between writes nothing (passed over or
\* raised, as for a post).
UpdateSave(s) ==
  /\ ops[s].pc = "update"
  /\ IF CommentById(ops[s].id) # {}
     THEN Answer(s, 200)
     ELSE \E status \in {200, 400} : Answer(s, status)
  /\ UNCHANGED <<postDocs, comments, now, nextId, served, voteVars, communityVars>>

\* DELETE /comments/:id: findById, 404 when not found, 403 for another user.
\* The request comes from one of `users`.
TakeDelete(s, users) ==
  /\ FreeOp(s)
  /\ \E userId \in users, id \in 1..(nextId - 1) :
       IF CommentById(id) = {} THEN Answer(s, 404)
       ELSE IF \E c \in CommentById(id) : c.author # userId
            THEN Answer(s, 403)
            ELSE \E c \in CommentById(id) :
                   ops' = [ops EXCEPT ![s] =
                             [IdleOp EXCEPT !.pc = "remove",
                                            !.user = userId, !.id = id,
                                            !.post = c.post]]
  /\ served' = served + 1
  /\ UNCHANGED <<postDocs, comments, now, nextId, voteVars, communityVars>>

\* A deletion by any user.
DeleteComment(s) ==
  /\ served < MaxOps
  /\ TakeDelete(s, Users)

\* comment.remove(): that one comment is removed, its replies stay.
DeleteCommentRemove(s) ==
  /\ ops[s].pc = "remove"
  /\ comments' = comments \ CommentById(ops[s].id)
  /\ ops' = [ops EXCEPT ![s].pc = "post"]
  /\ UNCHANGED <<postDocs, now, nextId, served, voteVars, communityVars>>

\* Post.findById(comment.post): without the post the handler answers.
DeleteCommentFindPost(s) ==
  /\ ops[s].pc = "post"
  /\ IF PostStored(ops[s].post)
     THEN ops' = [ops EXCEPT ![s].pc = "uncount",
                             ![s].count = postDocs[ops[s].post].commentCount]
     ELSE Answer(s, 200)
  /\ UNCHANGED <<postDocs, comments, now, nextId, served, voteVars, communityVars>>

\* Math.max(0, a - 1) of the code.
Max0(n) == IF n > 0 THEN n ELSE 0

\* post.commentCount = Math.max(0, post.commentCount - 1) and post.save().
DeleteCommentSavePost(s) ==
  /\ ops[s].pc = "uncount"
  /\ IF PostStored(ops[s].post)
     THEN /\ postDocs' = [postDocs EXCEPT ![ops[s].post].commentCount =
                            IF Max0(ops[s].count - 1) # ops[s].count
                            THEN Max0(ops[s].count - 1) ELSE @]
          /\ Answer(s, 200)
     ELSE /\ \E status \in {200, 500} : Answer(s, status)
          /\ UNCHANGED postDocs
  /\ UNCHANGED <<comments, now, nextId, served, voteVars, communityVars>>

\* DELETE /posts/:id: findById, 404 when not found, 403 for another user.
\* The request comes from one of `users` for one of `postIds`.
TakeDeletePost(s, users, postIds) ==
  /\ FreeOp(s)
  /\ \E userId \in users, postId \in postIds :
       IF ~PostStored(postId) THEN Answer(s, 404)
       ELSE IF author[postId] # userId THEN Answer(s, 403)
            ELSE ops' = [ops EXCEPT ![s] =
                           [IdleOp EXCEPT !.pc = "purge",
                                          !.user = userId, !.post = postId]]
  /\ served' = served + 1
  /\ UNCHANGED <<postDocs, comments, now, nextId, voteVars, communityVars>>

\* A post deletion by any user for any post id.
DeletePost(s) ==
  /\ served < MaxOps
  /\ TakeDeletePost(s, Users, Posts \cup {MissingId})

\* Comment.deleteMany({post: post._id})
DeletePostComments(s) ==
  /\ ops[s].pc = "purge"
  /\ comments' = {c \in comments : c.post # ops[s].post}
  /\ ops' = [ops EXCEPT ![s].pc = "unpost"]
  /\ UNCHANGED <<postDocs, now, nextId, served, voteVars, communityVars>>

\* post.remove() and the response.
DeletePostRemove(s) ==
  /\ ops[s].pc = "unpost"
  /\ postDocs' = [postDocs EXCEPT ![ops[s].post].stored = FALSE]
  /\ Answer(s, 200)
  /\ UNCHANGED <<comments, now, nextId, served, voteVars, communityVars>>

\* The listing has run its last query: res.json(comments) follows at once.
\* The slot keeps the forest that was returned: the roots in order and, per
\* comment, the replies attached to it.
AfterQuery(work) == IF work = <<>> THEN "listed" ELSE "replies"

\* GET /comments/post/:postId: the top-level comments of the post, newest
\* first.  The post itself is not looked up.
TakeList(s, postIds) ==
  /\ FreeOp(s)
  /\ \E postId \in postIds :
       \E found \in FindSorted({c \in comments : /\ c.post = postId
                                                 /\ c.parentId = NoParent}, -1) :
         ops' = [ops EXCEPT ![s] =
                   [IdleOp EXCEPT !.pc = AfterQuery(found),
                                  !.post = postId, !.status = 200,
                                  !.roots = found, !.work = found]]
  /\ served' = served + 1
  /\ UNCHANGED <<postDocs, comments, now, nextId, voteVars, communityVars>>

\* A listing for any post id.
ListRoots(s) ==
  /\ served < MaxOps
  /\ TakeList(s, Posts \cup {MissingId})

\* populateReplies: for the next comment in depth-first order, the comments
\* whose parentId is its id, oldest first; a non-empty result is attached as
\* its replies and visited before the comment's next sibling.
ListReplies(s) ==
  /\ ops[s].pc = "replies"
  /\ LET comment == Head(ops[s].work) IN
     \E found \in FindSorted({c \in comments : c.parentId = comment.id}, 1) :
       ops' = [ops EXCEPT ![s].replies[comment.id] = found,
                          ![s].work = found \o Tail(ops[s].work),
                          ![s].pc = AfterQuery(found \o Tail(ops[s].work))]
  /\ UNCHANGED <<postDocs, comments, now, nextId, served, voteVars, communityVars>>

\* Comment and post requests interleave at every await.
NextThreads ==
  \E s \in Slots :
    \/ CreateComment(s)
    \/ CreateFindParent(s)
    \/ CreateInsert(s)
    \/ CreateSavePost(s)
    \/ UpdateComment(s)
    \/ UpdateSave(s)
    \/ DeleteComment(s)
    \/ DeleteCommentRemove(s)
    \/ DeleteCommentFindPost(s)
    \/ DeleteCommentSavePost(s)
    \/ DeletePost(s)
    \/ DeletePostComments(s)
    \/ DeletePostRemove(s)
    \/ ListRoots(s)
    \/ ListReplies(s)

SpecThreads == InitRepeat /\ [][NextThreads]_vars

\* No comment or post handler is in flight.
QuietThreads == \A s \in Slots : ops[s].pc \in {"idle", "listed"}

\* Comment and post requests are executed one at a time.
NextThreadsSerial ==
  \E s \in Slots :
    \/ QuietThreads /\ CreateComment(s)
    \/ QuietThreads /\ UpdateComment(s)
    \/ QuietThreads /\ DeleteComment(s)
    \/ QuietThreads /\ DeletePost(s)
    \/ QuietThreads /\ ListRoots(s)
    \/ CreateFindParent(s)
    \/ CreateInsert(s)
    \/ CreateSavePost(s)
    \/ UpdateSave(s)
    \/ DeleteCommentRemove(s)
    \/ DeleteCommentFindPost(s)
    \/ DeleteCommentSavePost(s)
    \/ DeletePostComments(s)
    \/ DeletePostRemove(s)
    \/ ListReplies(s)

SpecThreadsSerial == InitRepeat /\ [][NextThreadsSerial]_vars

\* One thread with all its comment requests: user a creates, updates,
\* deletes and lists the comments of post p1.
ForestRequest(s) ==
  \/ served < MaxOps /\ TakeCreate(s, {"a"}, {"p1"}, MaxThread)
  \/ served < MaxOps /\ TakeUpdate(s, {"a"})
  \/ served < MaxOps /\ TakeDelete(s, {"a"})
  \/ served < MaxOps /\ TakeList(s, {"p1"})

NextForest ==
  \E s \in Slots :
    \/ ForestRequest(s)
    \/ CreateFindParent(s)
    \/ CreateInsert(s)
    \/ CreateSavePost(s)
    \/ UpdateSave(s)
    \/ DeleteCommentRemove(s)
    \/ DeleteCommentFindPost(s)
    \/ DeleteCommentSavePost(s)
    \/ ListReplies(s)

\* The requests of the one thread executed one at a time.
NextForestSerial ==
  \E s \in Slots :
    \/ QuietThreads /\ ForestRequest(s)
    \/ CreateFindParent(s)
    \/ CreateInsert(s)
    \/ CreateSavePost(s)
    \/ UpdateSave(s)
    \/ DeleteCommentRemove(s)
    \/ DeleteCommentFindPost(s)
    \/ DeleteCommentSavePost(s)
    \/ ListReplies(s)

SpecForestSerial == InitRepeat /\ [][NextForestSerial]_vars

\* The event loop runs the callback of every query that has returned: a
\* listing that waits for a replies query goes on.
SpecForest ==
  /\ InitRepeat
  /\ [][NextForest]_vars
  /\ \A s \in Slots : WF_vars(ListReplies(s))

\* One thread: user a comments on post p1 while the post is listed.
CreateOnPost(s) ==
  /\ served < MaxListOps
  /\ TakeCreate(s, {"a"}, {"p1"}, MaxComments)

ListPost(s) ==
  /\ served < MaxListOps
  /\ TakeList(s, {"p1"})

NextListing ==
  \E s \in Slots :
    \/ CreateOnPost(s)
    \/ CreateFindParent(s)
    \/ CreateInsert(s)
    \/ CreateSavePost(s)
    \/ ListPost(s)
    \/ ListReplies(s)

SpecListing == InitRepeat /\ [][NextListing]_vars

\* --------------------------------------------- votes among other requests
\* PUT /posts/:id: findById, 404 when not found, 403 for another user.  The
\* handler holds the whole post as loaded, counters and voters included.
TakeUpdatePost(s, users, postIds) ==
  /\ FreeOp(s)
  /\ \E userId \in users, postId \in postIds :
       IF ~PostStored(postId) THEN Answer(s, 404)
       ELSE IF author[postId] # userId THEN Answer(s, 403)
            ELSE ops' = [ops EXCEPT ![s] =
                           [IdleOp EXCEPT !.pc = "edit", !.user = userId,
                                          !.post = postId,
                                          !.doc = tgt[postId]]]
  /\ served' = served + 1
  /\ UNCHANGED <<postDocs, comments, now, nextId, voteVars, communityVars>>

\* A save that writes the whole post as the handler loaded it.
UpdatePostSaveWhole(s) ==
  /\ ops[s].pc = "edit"
  /\ tgt' = [tgt EXCEPT ![ops[s].post] = ops[s].doc]
  /\ Answer(s, 200)
  /\ UNCHANGED <<postDocs, comments, now, nextId, served,
                 author, karma, req, casts, issued, communityVars>>

\* post.title and post.content are assigned and post.save() sends these
\* two paths; the stored counters and voters are not written.
UpdatePostSave(s) ==
  /\ ops[s].pc = "edit"
  /\ IF PostStored(ops[s].post)
     THEN Answer(s, 200)
     ELSE \E status \in {200, 400} : Answer(s, status)
  /\ UNCHANGED <<postDocs, comments, now, nextId, served, voteVars, communityVars>>

\* PUT /users/profile: req.user is the user document the authentication
\* loaded, karma included.
TakeProfile(s, users) ==
  /\ FreeOp(s)
  /\ \E userId \in users :
       ops' = [ops EXCEPT ![s] = [IdleOp EXCEPT !.pc = "profile",
                                                !.user = userId,
                                                !.count = karma[userId]]]
  /\ served' = served + 1
  /\ UNCHANGED <<postDocs, comments, now, nextId, voteVars, communityVars>>

\* user.avatar is assigned and user.save() sends that path; the response
\* carries the karma of the loaded copy.
ProfileSave(s) ==
  /\ ops[s].pc = "profile"
  /\ Answer(s, 200)
  /\ UNCHANGED <<postDocs, comments, now, nextId, served, voteVars, communityVars>>

\* Votes on post p1 while it is stored.
VoteOnStored(r) ==
  /\ issued < MaxFrameVotes
  /\ LoadVote(r, {p \in {"p1"} : PostStored(p)})

\* The other requests: user a works on post p1 and its comments.
FrameRequest(s) ==
  \/ served < MaxFrameOps /\ TakeCreate(s, {"a"}, {"p1"}, MaxFrameOps)
  \/ served < MaxFrameOps /\ TakeUpdate(s, {"a"})
  \/ served < MaxFrameOps /\ TakeDelete(s, {"a"})
  \/ served < MaxFrameOps /\ TakeDeletePost(s, {"a"}, {"p1"})
  \/ served < MaxFrameOps /\ TakeList(s, {"p1"})
  \/ served < MaxFrameOps /\ TakeUpdatePost(s, {"a"}, {"p1"})
  \/ served < MaxFrameOps /\ TakeProfile(s, {"a"})

NextFrame ==
  \/ \E r \in Reqs :
       \/ VoteOnStored(r)
       \/ SaveTarget(r)
       \/ FindAuthor(r)
       \/ AggregatePosts(r)
       \/ SaveUser(r)
  \/ \E s \in Slots :
       \/ FrameRequest(s)
       \/ CreateFindParent(s)
       \/ CreateInsert(s)
       \/ CreateSavePost(s)
       \/ UpdateSave(s)
       \/ DeleteCommentRemove(s)
       \/ DeleteCommentFindPost(s)
       \/ DeleteCommentSavePost(s)
       \/ DeletePostComments(s)
       \/ DeletePostRemove(s)
       \/ ListReplies(s)
       \/ UpdatePostSave(s)
       \/ ProfileSave(s)

SpecFrame == InitRepeat /\ [][NextFrame]_vars

\* ------------------------------------------------------ community handlers
\* members.includes(userId) / moderators.includes(userId)
Includes(array, userId) == \E i \in 1..Len(array) : array[i] = userId

\* array.filter(x => x.toString() !== userId)
FilterOut(array, userId) == SelectSeq(array, LAMBDA x : x # userId)

\* A slot takes up a request when its handler has answered; the second slot
\* is used only while the first is busy.
FreeCop(k) ==
  /\ cops[k].pc = "idle"
  /\ k = "k1" \/ cops["k1"].pc # "idle"

\* The response is sent and the handler ends.
AnswerCop(k, status) ==
  cops' = [cops EXCEPT ![k] = [IdleCop EXCEPT !.status = status]]

\* The handler goes on to `pc` with the community as findOne returned it.
Loaded(k, pc, userId, other) ==
  cops' = [cops EXCEPT ![k] = [IdleCop EXCEPT !.pc = pc, !.user = userId,
                                              !.other = other,
                                              !.doc = community]]

\* POST /communities: findOne({name}), 400 when the name is taken.
CreateCommunity(k) ==
  /\ FreeCop(k)
  /\ cserved < MaxCommunityOps
  /\ \E userId \in Users :
       IF community.exists THEN AnswerCop(k, 400)
       ELSE Loaded(k, "insert", userId, userId)
  /\ cserved' = cserved + 1
  /\ UNCHANGED <<community, voteVars, threadVars>>

\* new Community({creator, moderators: [creator], members: [creator],
\* memberCount: 1}) and community.save(); the unique index on the name
\* refuses a second community of the name (400).
CreateCommunitySave(k) ==
  /\ cops[k].pc = "insert"
  /\ IF community.exists
     THEN /\ AnswerCop(k, 400)
          /\ UNCHANGED community
     ELSE /\ community' = [exists |-> TRUE, creator |-> cops[k].user,
                           moderators |-> <<cops[k].user>>,
                           members |-> <<cops[k].user>>,
                           memberCount |-> 1, v |-> 0]
          /\ AnswerCop(k, 201)
  /\ UNCHANGED <<cserved, voteVars, threadVars>>

\* POST /communities/:name/join: 404 without the community, 400 for a
\* member.
JoinCommunity(k) ==
  /\ FreeCop(k)
  /\ cserved < MaxCommunityOps
  /\ \E userId \in Users :
       IF ~community.exists THEN AnswerCop(k, 404)
       ELSE IF Includes(community.members, userId) THEN AnswerCop(k, 400)
            ELSE Loaded(k, "join", userId, userId)
  /\ cserved' = cserved + 1
  /\ UNCHANGED <<community, voteVars, threadVars>>

\* members.push(user), memberCount += 1 and save(): the push is sent as an
\* append, the count as the value of the handler's copy.
JoinSave(k) ==
  /\ cops[k].pc = "join"
  /\ community' = [community EXCEPT
                     !.members = Append(@, cops[k].user),
                     !.memberCount = cops[k].doc.memberCount + 1,
                     !.v = @ + 1]
  /\ AnswerCop(k, 200)
  /\ UNCHANGED <<cserved, voteVars, threadVars>>

\* POST /communities/:name/leave: 404 without the community, 400 for a
\* user who is not a member.  Nothing else about the user is looked at.
LeaveCommunity(k) ==
  /\ FreeCop(k)
  /\ cserved < MaxCommunityOps
  /\ \E userId \in Users :
       IF ~community.exists THEN AnswerCop(k, 404)
       ELSE IF ~Includes(community.members, userId) THEN AnswerCop(k, 400)
            ELSE Loaded(k, "leave", userId, userId)
  /\ cserved' = cserved + 1
  /\ UNCHANGED <<community, voteVars, threadVars>>

\* members = members.filter(...), memberCount = Math.max(0, memberCount - 1)
\* and save(): the filtered array of the copy replaces the stored one under
\* the version check (400 when it fails); moderators is not assigned.
LeaveSave(k) ==
  /\ cops[k].pc = "leave"
  /\ IF community.v = cops[k].doc.v
     THEN /\ community' = [community EXCEPT
                             !.members = FilterOut(cops[k].doc.members,
                                                   cops[k].user),
                             !.memberCount = Max0(cops[k].doc.memberCount - 1),
                             !.v = @ + 1]
          /\ AnswerCop(k, 200)
     ELSE /\ AnswerCop(k, 400)
          /\ UNCHANGED community
  /\ UNCHANGED <<cserved, voteVars, threadVars>>

\* POST /communities/:name/moderators: 404 without the community, 403 for
\* anyone but the creator.
AddModerator(k) ==
  /\ FreeCop(k)
  /\ cserved < MaxCommunityOps
  /\ \E userId \in Users, other \in Users :
       IF ~community.exists THEN AnswerCop(k, 404)
       ELSE IF community.creator # userId THEN AnswerCop(k, 403)
            ELSE Loaded(k, "finduser", userId, other)
  /\ cserved' = cserved + 1
  /\ UNCHANGED <<community, voteVars, threadVars>>

\* User.findById(userId) finds the user; 400 when the copy already lists
\* the user as a moderator.
AddModeratorFindUser(k) ==
  /\ cops[k].pc = "finduser"
  /\ IF Includes(cops[k].doc.moderators, cops[k].other)
     THEN AnswerCop(k, 400)
     ELSE cops' = [cops EXCEPT ![k].pc = "addmod"]
  /\ UNCHANGED <<community, cserved, voteVars, threadVars>>

\* moderators.push(userId); a user the copy does not list as a member is
\* pushed to members too, with memberCount += 1; save().
AddModeratorSave(k) ==
  /\ cops[k].pc = "addmod"
  /\ LET q == cops[k]
         joins == ~Includes(q.doc.members, q.other) IN
     community' = [community EXCEPT
                     !.moderators = Append(@, q.other),
                     !.members = IF joins THEN Append(@, q.other) ELSE @,
                     !.memberCount = IF joins THEN q.doc.memberCount + 1
                                     ELSE @,
                     !.v = @ + 1]
  /\ AnswerCop(k, 200)
  /\ UNCHANGED <<cserved, voteVars, threadVars>>

\* DELETE /communities/:name/moderators/:userId: 404 without the community,
\* 403 for anyone but the creator, 400 when the creator is to be removed.
RemoveModerator(k) ==
  /\ FreeCop(k)
  /\ cserved < MaxCommunityOps
  /\ \E userId \in Users, other \in Users :
       IF ~community.exists THEN AnswerCop(k, 404)
       ELSE IF community.creator # userId THEN AnswerCop(k, 403)
            ELSE IF community.creator = other THEN AnswerCop(k, 400)
                 ELSE Loaded(k, "rmmod", userId, other)
  /\ cserved' = cserved + 1
  /\ UNCHANGED <<community, voteVars, threadVars>>

\* moderators = moderators.filter(...) and save(): an array the filter left
\* as it was is not sent; a changed one replaces the stored array under the
\* version check (400 when it fails).
RemoveModeratorSave(k) ==
  /\ cops[k].pc = "rmmod"
  /\ LET q == cops[k]
         kept == FilterOut(q.doc.moderators, q.other) IN
     IF kept = q.doc.moderators
     THEN AnswerCop(k, 200) /\ UNCHANGED community
     ELSE IF community.v = q.doc.v
          THEN /\ community' = [community EXCEPT !.moderators = kept,
                                                 !.v = @ + 1]
               /\ AnswerCop(k, 200)
          ELSE AnswerCop(k, 400) /\ UNCHANGED community
  /\ UNCHANGED <<cserved, voteVars, threadVars>>

\* Community requests interleave at every await.
NextCommunity ==
  \E k \in CSlots :
    \/ CreateCommunity(k)
    \/ CreateCommunitySave(k)
    \/ JoinCommunity(k)
    \/ JoinSave(k)
    \/ LeaveCommunity(k)
    \/ LeaveSave(k)
    \/ AddModerator(k)
    \/ AddModeratorFindUser(k)
    \/ AddModeratorSave(k)
    \/ RemoveModerator(k)
    \/ RemoveModeratorSave(k)

SpecCommunity == InitRepeat /\ [][NextCommunity]_vars

\* Community requests are executed one at a time.
QuietCommunity == \A k \in CSlots : cops[k].pc = "idle"

NextCommunitySerial ==
  \E k \in CSlots :
    \/ QuietCommunity /\ CreateCommunity(k)
    \/ CreateCommunitySave(k)
    \/ QuietCommunity /\ JoinCommunity(k)
    \/ JoinSave(k)
    \/ QuietCommunity /\ LeaveCommunity(k)
    \/ LeaveSave(k)
    \/ QuietCommunity /\ AddModerator(k)
    \/ AddModeratorFindUser(k)
    \/ AddModeratorSave(k)
    \/ QuietCommunity /\ RemoveModerator(k)
    \/ RemoveModeratorSave(k)

SpecCommunitySerial == InitRepeat /\ [][NextCommunitySerial]_vars

\* ================================================================== claims
\* ------------------------------------------------------- comment threads
\* The sequence is ordered by createdAt: ascending for dir = 1, descending
\* for dir = -1.
InOrder(seq, dir) ==
  \A i \in 1..Len(seq) : \A j \in 1..Len(seq) :
    i < j => IF dir = 1 THEN seq[i].createdAt <= seq[j].createdAt
             ELSE seq[i].createdAt >= seq[j].createdAt

\* The creation times of the sequence are pairwise different.
DistinctTimes(seq) ==
  \A i \in 1..Len(seq) : \A j \in 1..Len(seq) :
    i # j => seq[i].createdAt # seq[j].createdAt

\* C15: in every forest the listing returns, the root comments are ordered
\* by creation time descending and the replies attached to every comment,
\* at every depth, are ordered by creation time ascending.
C15_ListingOrdered ==
  \A s \in Slots :
    ops[s].pc = "listed" =>
      /\ InOrder(ops[s].roots, -1)
      /\ \A id \in 1..MaxComments : InOrder(ops[s].replies[id], 1)

\* A returned forest with two roots created at different times, one of
\* which carries two replies created at different times.
C15_Witness ==
  \E s \in Slots :
    /\ ops[s].pc = "listed"
    /\ Len(ops[s].roots) >= 2
    /\ DistinctTimes(ops[s].roots)
    /\ \E i \in 1..Len(ops[s].roots) :
         /\ Len(ops[s].replies[ops[s].roots[i].id]) >= 2
         /\ DistinctTimes(ops[s].replies[ops[s].roots[i].id])

\* C16: every stored comment that has a parent references a stored comment
\* of the same post.
C16_ParentOnSamePost ==
  \A c \in comments :
    c.parentId # NoParent =>
      \E parent \in comments : parent.id = c.parentId /\ parent.post = c.post

\* C17: a listing taken up for a post id under which no post is stored
\* returns the empty forest with status 200.
C17_NoPostNoComments ==
  [][\A s \in Slots :
       (/\ FreeOp(s)
        /\ served' = served + 1
        /\ ops'[s].pc \in {"listed", "replies"}
        /\ ~PostStored(ops'[s].post))
       => (/\ ops'[s].pc = "listed"
           /\ ops'[s].roots = <<>>
           /\ ops'[s].status = 200)]_vars

\* Number of voter entries with the given vote value.
CountVotes(voters, value) ==
  Cardinality({i \in 1..Len(voters) : voters[i].vote = value})

\* Number of voter entries of the given user.
CountEntries(voters, userId) ==
  Cardinality({i \in 1..Len(voters) : voters[i].user = userId})

\* The user's vote state on a stored document: the entry's vote, 0 without one.
CurrentVote(doc, userId) ==
  LET mine == {i \in 1..Len(doc.voters) : doc.voters[i].user = userId} IN
  IF mine = {} THEN 0
  ELSE doc.voters[CHOOSE i \in mine : \A j \in mine : i <= j].vote

\* The value of the user's last cast in a sequence of casts, 0 without one.
LastCast(cs, userId) ==
  LET mine == {i \in 1..Len(cs) : cs[i][1] = userId} IN
  IF mine = {} THEN 0
  ELSE cs[CHOOSE i \in mine : \A j \in mine : j <= i][2]

\* C1: with vote requests executed one at a time, every post and comment has
\* upvotes = number of its voter entries with vote +1 and downvotes = number
\* of its voter entries with vote -1, in every reachable state.
C1_CountersMatchVoters ==
  \A t \in Targets :
    /\ tgt[t].upvotes = CountVotes(tgt[t].voters, 1)
    /\ tgt[t].downvotes = CountVotes(tgt[t].voters, -1)

\* A target voted up by one user and down by the other.
C1_Witness ==
  \E t \in Targets :
    /\ CountVotes(tgt[t].voters, 1) = 1
    /\ CountVotes(tgt[t].voters, -1) = 1
    /\ Len(casts[t]) = 3

\* ---------------------------------------------------------------- karma
\* Sum of (upvotes - downvotes) over all posts and all comments of a user.
TotalKarma(userId) ==
  PostKarma(tgt, author, userId) + CommentKarma(tgt, author, userId)

\* C5: with requests run one at a time, once no request is in flight the
\* karma of every user who authored a voted target equals the sum of
\* (upvotes - downvotes) over all posts and all comments of that user.
C5_KarmaAllTargets ==
  Quiet =>
    \A t \in Targets :
      casts[t] # <<>> => karma[author[t]] = TotalKarma(author[t])

\* ---------------------------------------------------------- idempotence
\* The counters and voter entries of a stored document.
Votes(doc) == <<doc.upvotes, doc.downvotes, doc.voters>>

\* C6: a save for a cast whose value equals the user's current vote state on
\* the target (+1 with a +1 entry, -1 with a -1 entry, 0 without an entry)
\* leaves the target's upvotes, downvotes and voter entries as they were.
C6_SameVoteNoChange ==
  [][\A r \in Reqs :
       (/\ req[r].pc = "loaded"
        /\ req'[r].pc # "loaded"
        /\ req[r].vote = CurrentVote(tgt[req[r].target], req[r].user))
       => Votes(tgt'[req[r].target]) = Votes(tgt[req[r].target])]_vars

\* A +1 cast has been saved for a user whose previous cast on the target,
\* the one right before, was +1 as well.
C6_Witness ==
  \E r \in Reqs :
    LET cs == casts[req[r].target] IN
    /\ req[r].pc = "saved"
    /\ req[r].vote = 1
    /\ Len(cs) >= 2
    /\ cs[Len(cs) - 1] = <<req[r].user, 1>>
    /\ CurrentVote(tgt[req[r].target], req[r].user) = 1

\* ------------------------------------------------- counter conservation
\* C7: after any sequence of casts executed one at a time on a fresh target,
\* upvotes is the number of users whose last cast is +1 and downvotes the
\* number of users whose last cast is -1.
C7_CountersFollowLastCasts ==
  Quiet =>
    \A t \in Targets :
      /\ tgt[t].upvotes =
           Cardinality({u \in Users : LastCast(casts[t], u) = 1})
      /\ tgt[t].downvotes =
           Cardinality({u \in Users : LastCast(casts[t], u) = -1})

\* The scenario: a casts +1, a casts -1, b casts +1; upvotes 1, downvotes 1.
C7_Witness ==
  /\ Quiet
  /\ casts["p1"] = << <<"a", 1>>, <<"a", -1>>, <<"b", 1>> >>
  /\ tgt["p1"].upvotes = 1
  /\ tgt["p1"].downvotes = 1

\* ------------------------------------------------------------- toggle
\* C8: on a fresh target the same user casting +1, then -1, then 0 ends with
\* upvotes 0, downvotes 0 and no voter entry of that user.
C8_ToggleEndsFresh ==
  \A t \in Targets, u \in Users :
    (Quiet /\ casts[t] = << <<u, 1>>, <<u, -1>>, <<u, 0>> >>)
      => /\ tgt[t].upvotes = 0
         /\ tgt[t].downvotes = 0
         /\ CountEntries(tgt[t].voters, u) = 0

\* The three casts have been made on the comment and all have completed.
C8_Witness ==
  /\ Quiet
  /\ casts["c1"] = << <<"b", 1>>, <<"b", -1>>, <<"b", 0>> >>
  /\ tgt["c1"].voters = <<>>

\* ---------------------------------------------------------- uniqueness
\* C9: with vote requests executed one at a time, a target's voter list holds
\* at most one entry of any user, in every reachable state.
C9_OneEntryPerUser ==
  \A t \in Targets, u \in Users : CountEntries(tgt[t].voters, u) <= 1

\* A user has cast twice on a target (+1, then -1) and holds one entry.
C9_Witness ==
  \E t \in Targets, u \in Users :
    /\ casts[t] = << <<u, 1>>, <<u, -1>> >>
    /\ Quiet
    /\ CountEntries(tgt[t].voters, u) = 1

\* ----------------------------------------------------- concurrent votes
RECURSIVE RunInOrder(_, _, _, _)
\* The document after the casts cs[order[k]], ..., cs[order[Len(cs)]] have
\* been applied one after the other, each saved before the next is loaded.
RunInOrder(doc, cs, order, k) ==
  IF k > Len(cs) THEN doc
  ELSE RunInOrder(SaveDoc(doc, doc, cs[order[k]][1], cs[order[k]][2], TRUE),
                  cs, order, k + 1)

\* The orders in which n requests can be run one at a time.
Orders(n) ==
  {f \in [1..n -> 1..n] : \A i, j \in 1..n : f[i] = f[j] => i = j}

\* Two voter lists hold the same entries.
SameEntries(vs, ws) ==
  /\ Len(vs) = Len(ws)
  /\ \A u \in Users, value \in {-1, 1} :
       Cardinality({i \in 1..Len(vs) : vs[i] = [user |-> u, vote |-> value]})
         = Cardinality({i \in 1..Len(ws) : ws[i] = [user |-> u, vote |-> value]})

\* C2: when the steps of the N vote requests on a target interleave, the
\* target's final upvotes, downvotes and voter entries are those of running
\* the N requests one at a time in some order.
C2_SomeSerialOrder ==
  Quiet =>
    \A t \in Targets :
      \E order \in Orders(Len(casts[t])) :
        LET serial == RunInOrder(FreshDoc, casts[t], order, 1) IN
        /\ tgt[t].upvotes = serial.upvotes
        /\ tgt[t].downvotes = serial.downvotes
        /\ SameEntries(tgt[t].voters, serial.voters)

\* C3: N first-time +1 votes of N distinct users on a fresh post end, once
\* all have completed, with N voter entries and upvotes = N.
C3_NoLostUpvote ==
  \A p \in Posts :
    (/\ Quiet
     /\ \A i \in 1..Len(casts[p]) : casts[p][i][2] = 1
     /\ \A i, j \in 1..Len(casts[p]) : casts[p][i][1] = casts[p][j][1] => i = j)
    => /\ Len(tgt[p].voters) = Len(casts[p])
       /\ tgt[p].upvotes = Len(casts[p])

\* C4: two vote requests of the same user on the same target, both loaded
\* before either saves, never leave more than one voter entry of that user.
C4_OneEntryUnderRace ==
  \A t \in Targets, u \in Users :
    (/\ Len(casts[t]) = 2
     /\ casts[t][1][1] = u
     /\ casts[t][2][1] = u)
    => CountEntries(tgt[t].voters, u) <= 1

\* C10: after two vote requests on two different posts of one author (who has
\* no comments) have completed, the author's karma is the sum of
\* (upvotes - downvotes) over the author's posts as stored.
C10_KarmaAfterRace ==
  (/\ Quiet
   /\ Len(casts["p1"]) = 1
   /\ Len(casts["p2"]) = 1
   /\ casts["c1"] = <<>>
   /\ author["p1"] = author["p2"]
   /\ author["c1"] # author["p1"])
  => karma[author["p1"]] = PostKarma(tgt, author, author["p1"])

\* ------------------------------------------------------------ zero floor
\* C11: upvotes >= 0 and downvotes >= 0 for every post and comment in every
\* reachable state; undoing a vote on a counter that is already 0 leaves it
\* at 0.
C11_CountersNotNegative ==
  \A t \in Targets : tgt[t].upvotes >= 0 /\ tgt[t].downvotes >= 0

\* ------------------------------------------------------------- rejection
\* C12: a vote request with a value outside {-1, 0, 1} or for an id that
\* references no post or comment is answered with an error and changes no
\* counters, voter entries or karma: a request that arrives either goes on
\* with a valid value and a stored target, or ends at once with 400 or 404
\* and everything stored as it was.
C12_RejectedChangesNothing ==
  [][\A r \in Reqs :
       (Free(r) /\ issued' = issued + 1)
       => \/ /\ req'[r].pc = "loaded"
             /\ req'[r].vote \in {1, 0, -1}
             /\ req'[r].target \in DOMAIN tgt
          \/ /\ req'[r].pc = "idle"
             /\ req'[r].status \in {400, 404}
             /\ tgt' = tgt
             /\ karma' = karma]_vars

\* A request has been answered 404 while votes and karma are stored.
C12_Witness ==
  \E r \in Reqs, t \in Targets :
    /\ req[r].pc = "idle"
    /\ req[r].status = 404
    /\ tgt[t].voters # <<>>
    /\ karma[author[t]] # 0

\* ------------------------------------------------------ failing requests
\* C13: when the karma recomputation of a vote request fails (an aggregate
\* or user.save() raises) after the target has been saved, the request is
\* still answered with success and the saved vote stays.
C13_KarmaFailureStillSucceeds ==
  [][\A r \in Reqs :
       (req[r].pc \in {"comments", "posts", "user"} /\ req'[r].pc = "idle")
       => (req'[r].status = 200 /\ tgt' = tgt)]_vars

\* C14: the counter change and the voter-entry change of a vote request
\* become visible together, also when the request fails at some step:
\* whenever a target's stored upvotes, downvotes or voters change, the step is
\* the save of a request for that target and all three are the ones the
\* handler computed for the cast.
C14_CountersAndVotersTogether ==
  [][\A t \in Targets :
       Votes(tgt'[t]) # Votes(tgt[t])
       => \E r \in Reqs :
            /\ req[r].pc = "loaded"
            /\ req[r].target = t
            /\ Votes(tgt'[t]) =
                 Votes(CastVote(req[r].doc, req[r].user, req[r].vote))]_vars

\* The only request so far failed after its save: the vote on p1 is stored
\* with its counter, the karma was never written.
C14_Witness ==
  /\ issued = 1
  /\ req["r1"].pc = "idle"
  /\ req["r1"].status = 400
  /\ Votes(tgt["p1"]) = <<1, 0, <<[user |-> "b", vote |-> 1]>> >>
  /\ karma = [u \in Users |-> 0]

\* ------------------------------------------------- independent targets
\* C18: a vote request changes the stored counters and voters of its own
\* target only, and a target that received one request ends with the counters
\* and voters of that request run alone, whatever ran on other targets in
\* the meantime.
C18_OtherTargetsUntouched ==
  [][\A t \in Targets :
       /\ tgt'[t] # tgt[t]
            => \E r \in Reqs : req[r].pc = "loaded" /\ req[r].target = t
       /\ ((\A r \in Reqs : req'[r].pc = "idle") /\ Len(casts'[t]) = 1)
            => Votes(tgt'[t]) =
                 Votes(CastVote(FreshDoc, casts'[t][1][1], casts'[t][1][2]))
    ]_vars

\* Two requests, one on each post, were in flight together (the second slot
\* is taken only while the first is busy) and both have completed.
C18_Witness ==
  /\ Quiet
  /\ req["r1"].status = 200
  /\ req["r2"].status = 200
  /\ Len(casts["p1"]) = 1 /\ tgt["p1"].voters # <<>>
  /\ Len(casts["p2"]) = 1 /\ tgt["p2"].voters # <<>>
  /\ casts["c1"] = <<>>

\* ------------------------------------------------------- stored entries
\* C19: every stored voter entry has vote -1 or +1; the save of a cast of 0
\* by a user whose entry the handler found removes one entry of that user.
C19_EntriesAreUpOrDown ==
  [][/\ \A t \in Targets : \A i \in 1..Len(tgt'[t].voters) :
          tgt'[t].voters[i].vote \in {-1, 1}
     /\ \A r \in Reqs :
          (/\ req[r].pc = "loaded"
           /\ req'[r].pc = "saved"
           /\ req[r].vote = 0
           /\ CountEntries(req[r].doc.voters, req[r].user) > 0)
          => CountEntries(tgt'[req[r].target].voters, req[r].user)
               = CountEntries(tgt[req[r].target].voters, req[r].user) - 1
    ]_vars

\* A user's +1 has been retracted by a cast of 0 and the entry is gone.
C19_Witness ==
  \E r \in Reqs, u \in Users :
    /\ req[r].pc = "saved"
    /\ req[r].vote = 0
    /\ casts[req[r].target] = << <<u, 1>>, <<u, 0>> >>
    /\ tgt[req[r].target].voters = <<>>

\* ------------------------------------------------------ returned counters
\* C20: the upvotes and downvotes a successful vote request returns (the
\* counters of the handler's copy) are the stored ones right after that
\* request's save, also with other requests on the target in flight.
C20_ReturnedEqualsStored ==
  [][\A r \in Reqs :
       (req[r].pc = "loaded" /\ req'[r].pc = "saved")
       => /\ req'[r].doc.upvotes = tgt'[req[r].target].upvotes
          /\ req'[r].doc.downvotes = tgt'[req[r].target].downvotes]_vars

\* ------------------------------------------------- votes and other requests
\* The target is stored before and after the step.
StillExists(t) == t \in Posts => (postDocs[t].stored /\ postDocs'[t].stored)

\* C21: a step of a handler that is not a vote handler (creating, updating
\* or deleting a comment, updating or deleting a post, listing comments,
\* updating a profile) leaves the upvotes and downvotes of every target that
\* still exists and the karma of every user as they were.
C21_OnlyVotesChangeCounters ==
  [][ops' # ops =>
       /\ karma' = karma
       /\ \A t \in Targets :
            StillExists(t) => /\ tgt'[t].upvotes = tgt[t].upvotes
                              /\ tgt'[t].downvotes = tgt[t].downvotes]_vars

\* A post update is about to save a post whose stored counters have moved
\* on, by a vote, from the copy the update loaded.
C21_Witness ==
  \E s \in Slots :
    /\ ops[s].pc = "edit"
    /\ PostStored(ops[s].post)
    /\ <<ops[s].doc.upvotes, ops[s].doc.downvotes>> #
         <<tgt[ops[s].post].upvotes, tgt[ops[s].post].downvotes>>

\* ------------------------------------------------------- the comment forest
\* The parentId stored for the comment `id` (none when it is not stored).
ParentOf(id) ==
  IF \E c \in comments : c.id = id
  THEN (CHOOSE c \in comments : c.id = id).parentId
  ELSE NoParent

\* The comment reached from `id` by going to the parent n times.
RECURSIVE Climb(_, _)
Climb(id, n) ==
  IF n = 0 \/ id = NoParent THEN id ELSE Climb(ParentOf(id), n - 1)

\* No stored comment is its own ancestor.
Acyclic ==
  \A c \in comments : \A n \in 1..MaxComments : Climb(c.id, n) # c.id

\* C22: the parent relation among the stored comments is acyclic in every
\* state, and every listing that has started its replies queries ends with
\* a returned forest.
C22_AcyclicAndListingEnds ==
  /\ []Acyclic
  /\ \A s \in Slots : (ops[s].pc = "replies") ~> (ops[s].pc = "listed")

\* A listing has returned a forest that is three comments deep.
C22_Witness ==
  \E s \in Slots :
    /\ ops[s].pc = "listed"
    /\ \E i \in 1..Len(ops[s].roots) :
         \E j \in 1..Len(ops[s].replies[ops[s].roots[i].id]) :
           ops[s].replies[ops[s].replies[ops[s].roots[i].id][j].id] # <<>>

\* Number of places of the returned forest that hold the comment `id`.
Occurrences(op, id) ==
  Cardinality({i \in 1..Len(op.roots) : op.roots[i].id = id})
  + Cardinality({<<n, i>> \in (1..MaxComments) \X (1..MaxComments) :
                   i <= Len(op.replies[n]) /\ op.replies[n][i].id = id})

\* C23: with requests executed one after another, the forest a listing
\* returned for a post holds every stored comment of that post exactly
\* once, replies of deleted comments included.
C23_EveryCommentListedOnce ==
  \A s \in Slots :
    ops[s].pc = "listed" =>
      \A c \in comments :
        c.post = ops[s].post => Occurrences(ops[s], c.id) = 1

\* C24: every comment of the forest a listing returns for a post, roots and
\* replies at any depth, is a comment of that post.
C24_ForestOfOnePost ==
  \A s \in Slots :
    ops[s].pc = "listed" =>
      /\ \A i \in 1..Len(ops[s].roots) : ops[s].roots[i].post = ops[s].post
      /\ \A n \in 1..MaxComments : \A i \in 1..Len(ops[s].replies[n]) :
           ops[s].replies[n][i].post = ops[s].post

\* C25: when no handler is in flight, the commentCount of every stored post
\* is the number of stored comments of that post.
C25_CommentCountMatches ==
  QuietThreads =>
    \A p \in Posts :
      postDocs[p].stored =>
        postDocs[p].commentCount =
          Cardinality({c \in comments : c.post = p})

\* ------------------------------------------------------------ the community
\* C26: every moderator of the stored community is one of its members, and
\* memberCount is the number of entries of members.
C26_ModeratorsAreMembers ==
  community.exists =>
    /\ \A i \in 1..Len(community.moderators) :
         Includes(community.members, community.moderators[i])
    /\ community.memberCount = Len(community.members)

====
